---- MODULE Spec2Model ----
\* Model of training_scheduler_json_logic.py: the JSON state store, the
\* completion recorder and the recommendation engine, driven by handler
\* invocations (the /done and /today handlers of training_scheduler_bot.py).
\*
\* Calendar: a date is a day number; day 0 is Thursday 2025-12-25, so that
\* day 4 is Monday 2025-12-29, the first day of ISO week 1 of 2026.
\* A Python dict is a function with a set of strings as its domain; None is
\* the empty tuple; an ISO date string 'YYYY-MM-DD' is the tuple <<Y, M, D>>.
EXTENDS Integers, Sequences, FiniteSets, TLC

\* highDays and lastRecord are history variables: the dates of the high-CNS
\* completions saved so far, and for the latest saved completion its key, its
\* date, the counter the store held and the counter the load had returned.
\* recordedSince is a history variable too: for each key, the number of
\* completions saved since the stamp in the store last changed.
VARIABLES today, file, pc, arg, mem, cur, out, nops, highDays, lastRecord,
          recordedSince

vars == <<today, file, pc, arg, mem, cur, out, nops, highDays, lastRecord,
          recordedSince>>

\* ---------------------------------------------------------------- bounds
MaxDay == 4
MaxOps == 3
MaxRaceOps == 2

\* ------------------------------------------------------- Python helpers
None == <<>>

EmptyDict == [k \in {} |-> None]

Get(dict, key, default) == IF key \in DOMAIN dict THEN dict[key] ELSE default

Put(dict, key, value) ==
    [k \in DOMAIN dict \cup {key} |-> IF k = key THEN value ELSE dict[k]]

Range(seq) == {seq[i] : i \in 1..Len(seq)}

Max2(a, b) == IF a >= b THEN a ELSE b

\* ------------------------------------------------------------- calendar
\* date.isoformat(): day number -> <<year, month, day>> (Dec 2025 / Jan 2026)
IsoFormat(d) == IF d + 25 <= 31 THEN <<2025, 12, d + 25>> ELSE <<2026, 1, d - 6>>

IsValidIsoDate(s) ==
    /\ Len(s) = 3
    /\ \/ s[1] = 2025 /\ s[2] = 12 /\ s[3] \in 1..31
       \/ s[1] = 2026 /\ s[2] = 1 /\ s[3] \in 1..31

\* date.fromisoformat(): defined when IsValidIsoDate(s), else ValueError
FromIsoFormat(s) == IF s[1] = 2025 THEN s[3] - 25 ELSE s[3] + 6

\* date.isocalendar()[:2]: 2025-12-22..28 is week 52 of 2025 (a 52-week ISO
\* year), 2025-12-29 starts week 1 of 2026
IsoCalendar(d) ==
    LET w == (d + 3) \div 7
    IN IF w <= 0 THEN <<2025, 52 + w>> ELSE <<2026, w>>

\* -------------------------------------------------------------- catalog
ExerciseKeys ==
    << "squat", "hinge", "unilateral", "calves", "ohp", "horizontal_row",
       "vertical_pull_volume", "vertical_pull_strength", "core" >>

Def(target, rest, cns) ==
    [ times_per_week_target |-> target,
      minimal_rest_hours_between_sessions |-> rest,
      cns_load_level |-> cns ]

EXERCISE_DEFINITIONS_BY_KEY ==
    [ squat |-> Def(2, 48, "high"),
      hinge |-> Def(1, 72, "high"),
      unilateral |-> Def(2, 48, "medium"),
      calves |-> Def(5, 24, "low"),
      ohp |-> Def(2, 48, "medium"),
      horizontal_row |-> Def(2, 48, "low"),
      vertical_pull_volume |-> Def(1, 72, "medium"),
      vertical_pull_strength |-> Def(1, 72, "high"),
      core |-> Def(3, 24, "low") ]

CatalogKeySet == DOMAIN EXERCISE_DEFINITIONS_BY_KEY

IsHighCns(key) == EXERCISE_DEFINITIONS_BY_KEY[key].cns_load_level = "high"

HighKeys == {k \in CatalogKeySet : IsHighCns(k)}

\* ---------------------------------------------------------- state store
FreshRuntimeState == [last_done_local_date |-> None, times_completed_this_week |-> 0]

\* variant: the default state is built without a week stamp
initialize_default_unstamped(now) ==
    [ metadata |-> EmptyDict,
      exercises |-> [k \in CatalogKeySet |-> FreshRuntimeState] ]

initialize_default_training_state(now) ==
    [ metadata |-> [iso_year |-> IsoCalendar(now)[1], iso_week |-> IsoCalendar(now)[2]],
      exercises |-> [k \in CatalogKeySet |-> FreshRuntimeState] ]

\* variant: fills in the exercises only when the state has none at all
ensure_all_exercises_present_only_when_absent(state) ==
    IF "exercises" \in DOMAIN state THEN state
    ELSE Put(state, "exercises", [k \in CatalogKeySet |-> FreshRuntimeState])

ensure_all_exercises_present(state) ==
    LET exercises_state == Get(state, "exercises", EmptyDict)
    IN Put(state, "exercises",
           [k \in DOMAIN exercises_state \cup CatalogKeySet |->
               IF k \in DOMAIN exercises_state THEN exercises_state[k]
               ELSE FreshRuntimeState])

StoredStamp(state, now) ==
    LET metadata == Get(state, "metadata", EmptyDict)
    IN << Get(metadata, "iso_year", IsoCalendar(now)[1]),
          Get(metadata, "iso_week", IsoCalendar(now)[2]) >>

\* variant: the rollover test compares the ISO year only
perform_week_rollover_year_only(state, now) ==
    LET metadata == Get(state, "metadata", EmptyDict)
        withMeta == Put(state, "metadata", metadata)
        exercises_state == Get(state, "exercises", EmptyDict)
        zeroed == [k \in DOMAIN exercises_state |->
                      Put(exercises_state[k], "times_completed_this_week", 0)]
        stamped == Put(Put(metadata, "iso_year", IsoCalendar(now)[1]),
                       "iso_week", IsoCalendar(now)[2])
    IN IF StoredStamp(state, now)[1] # IsoCalendar(now)[1]
       THEN Put(Put(withMeta, "exercises", zeroed), "metadata", stamped)
       ELSE withMeta

\* variant: the stamp is renewed but the counters are kept
perform_week_rollover_stamp_only(state, now) ==
    LET metadata == Get(state, "metadata", EmptyDict)
        withMeta == Put(state, "metadata", metadata)
        stamped == Put(Put(metadata, "iso_year", IsoCalendar(now)[1]),
                       "iso_week", IsoCalendar(now)[2])
    IN IF StoredStamp(state, now) # IsoCalendar(now)
       THEN Put(withMeta, "metadata", stamped)
       ELSE withMeta

\* variant: the rollover also clears every last_done_local_date
perform_week_rollover_clears_dates(state, now) ==
    LET metadata == Get(state, "metadata", EmptyDict)
        withMeta == Put(state, "metadata", metadata)
        exercises_state == Get(state, "exercises", EmptyDict)
        cleared == [k \in DOMAIN exercises_state |->
                       Put(Put(exercises_state[k], "times_completed_this_week", 0),
                           "last_done_local_date", None)]
        stamped == Put(Put(metadata, "iso_year", IsoCalendar(now)[1]),
                       "iso_week", IsoCalendar(now)[2])
    IN IF StoredStamp(state, now) # IsoCalendar(now)
       THEN Put(Put(withMeta, "exercises", cleared), "metadata", stamped)
       ELSE withMeta

perform_week_rollover_if_needed(state, now) ==
    LET metadata == Get(state, "metadata", EmptyDict)
        withMeta == Put(state, "metadata", metadata)
        exercises_state == Get(state, "exercises", EmptyDict)
        zeroed == [k \in DOMAIN exercises_state |->
                      Put(exercises_state[k], "times_completed_this_week", 0)]
        stamped == Put(Put(metadata, "iso_year", IsoCalendar(now)[1]),
                       "iso_week", IsoCalendar(now)[2])
    IN IF StoredStamp(state, now) # IsoCalendar(now)
       THEN Put(Put(withMeta, "exercises", zeroed), "metadata", stamped)
       ELSE withMeta

\* the state load_training_state returns for deserialized content
LoadedState(data, now) ==
    perform_week_rollover_if_needed(ensure_all_exercises_present(data), now)

\* ------------------------------------------------- recommendation engine
ParsedDates(state, keys) ==
    LET exercises_state == Get(state, "exercises", EmptyDict)
    IN { FromIsoFormat(Get(Get(exercises_state, k, EmptyDict), "last_done_local_date", None)) :
           k \in { j \in keys :
                     IsValidIsoDate(Get(Get(exercises_state, j, EmptyDict),
                                        "last_done_local_date", None)) } }

MaxOfSet(S) == CHOOSE m \in S : \A x \in S : x <= m

\* variant: only the catalog's high-CNS entries are scanned
compute_last_any_high_only(state) ==
    LET ds == ParsedDates(state, HighKeys)
    IN IF ds = {} THEN {} ELSE {MaxOfSet(ds)}

\* None is modelled by the empty set of dates here: {} or {latest}
compute_last_any_training_local_date(state) ==
    LET ds == ParsedDates(state, DOMAIN Get(state, "exercises", EmptyDict))
    IN IF ds = {} THEN {} ELSE {MaxOfSet(ds)}

compute_last_high_cns_training_local_date(state) ==
    LET ds == ParsedDates(state, HighKeys)
    IN IF ds = {} THEN {} ELSE {MaxOfSet(ds)}

\* variant: the last high-CNS date is compared with today, not yesterday
WasHighCnsToday(state, now) ==
    compute_last_high_cns_training_local_date(state) = {now}

WasHighCnsYesterday(state, now) ==
    compute_last_high_cns_training_local_date(state) = {now - 1}

VeryLongAgo == 1000000

\* variant: the day of the session itself is counted as rest
HoursSinceLastDone_Inclusive(state, key, now) ==
    LET rt == Get(Get(state, "exercises", EmptyDict), key, FreshRuntimeState)
        s == Get(rt, "last_done_local_date", None)
    IN IF s = None THEN VeryLongAgo
       ELSE IF IsValidIsoDate(s) THEN (now - FromIsoFormat(s) + 1) * 24
       ELSE VeryLongAgo

HoursSinceLastDone(state, key, now) ==
    LET rt == Get(Get(state, "exercises", EmptyDict), key, FreshRuntimeState)
        s == Get(rt, "last_done_local_date", None)
    IN IF s = None THEN VeryLongAgo
       ELSE IF IsValidIsoDate(s) THEN (now - FromIsoFormat(s)) * 24
       ELSE VeryLongAgo

IsRestSatisfied(state, key, now) ==
    HoursSinceLastDone(state, key, now)
        >= EXERCISE_DEFINITIONS_BY_KEY[key].minimal_rest_hours_between_sessions

\* variant: the remaining count is floored at 1 instead of 0
RemainingTimesThisWeek_FlooredAtOne(state, key) ==
    LET rt == Get(Get(state, "exercises", EmptyDict), key, FreshRuntimeState)
    IN Max2(1, EXERCISE_DEFINITIONS_BY_KEY[key].times_per_week_target
                 - Get(rt, "times_completed_this_week", 0))

RemainingTimesThisWeek(state, key) ==
    LET rt == Get(Get(state, "exercises", EmptyDict), key, FreshRuntimeState)
    IN Max2(0, EXERCISE_DEFINITIONS_BY_KEY[key].times_per_week_target
                 - Get(rt, "times_completed_this_week", 0))

\* variant: the CNS branch appends but does not continue
ClassifyOne_NoContinue(lists, state, key, now) ==
    LET blocked == IF IsHighCns(key) /\ WasHighCnsYesterday(state, now)
                   THEN [lists EXCEPT !.cns_blocked_today = Append(@, key)]
                   ELSE lists
    IN IF ~IsRestSatisfied(state, key, now)
       THEN [blocked EXCEPT !.not_ready_by_rest = Append(@, key)]
       ELSE IF RemainingTimesThisWeek(state, key) > 0
       THEN [blocked EXCEPT !.must_do_today = Append(@, key)]
       ELSE [blocked EXCEPT !.optional_today = Append(@, key)]

\* variant: an exercise with weekly quota left is due before any gate is
\* looked at
ClassifyOne_QuotaFirst(lists, state, key, now) ==
    IF RemainingTimesThisWeek(state, key) > 0
    THEN [lists EXCEPT !.must_do_today = Append(@, key)]
    ELSE IF IsHighCns(key) /\ WasHighCnsYesterday(state, now)
    THEN [lists EXCEPT !.cns_blocked_today = Append(@, key)]
    ELSE IF ~IsRestSatisfied(state, key, now)
    THEN [lists EXCEPT !.not_ready_by_rest = Append(@, key)]
    ELSE [lists EXCEPT !.optional_today = Append(@, key)]

\* one pass of the classification loop: append, then continue
ClassifyOne(lists, state, key, now) ==
    IF IsHighCns(key) /\ WasHighCnsYesterday(state, now)
    THEN [lists EXCEPT !.cns_blocked_today = Append(@, key)]
    ELSE IF ~IsRestSatisfied(state, key, now)
    THEN [lists EXCEPT !.not_ready_by_rest = Append(@, key)]
    ELSE IF RemainingTimesThisWeek(state, key) > 0
    THEN [lists EXCEPT !.must_do_today = Append(@, key)]
    ELSE [lists EXCEPT !.optional_today = Append(@, key)]

RECURSIVE ClassifyLoop(_, _, _, _)
ClassifyLoop(lists, state, i, now) ==
    IF i > Len(ExerciseKeys) THEN lists
    ELSE ClassifyLoop(ClassifyOne(lists, state, ExerciseKeys[i], now), state, i + 1, now)

\* variant: with no date on record the gap is counted from day 0
LogGapWarning_FromEpoch(state, now) ==
    LET last == compute_last_any_training_local_date(state)
        d == IF last = {} THEN 0 ELSE CHOOSE x \in last : TRUE
    IN IF now - d >= 2 THEN <<IsoFormat(d), now - d>> ELSE None

\* the warning is modelled by the two values it carries: <<date, days>>
LogGapWarning(state, now) ==
    LET last == compute_last_any_training_local_date(state)
    IN IF last = {} THEN None
       ELSE LET d == CHOOSE x \in last : TRUE
            IN IF now - d >= 2 THEN <<IsoFormat(d), now - d>> ELSE None

Recommendations(state, now) ==
    ClassifyLoop([ must_do_today |-> <<>>,
                   optional_today |-> <<>>,
                   cns_blocked_today |-> <<>>,
                   not_ready_by_rest |-> <<>>,
                   log_gap_warning |-> LogGapWarning(state, now) ],
                 state, 1, now)

\* ------------------------------------------------------ persisted store
Absent == [kind |-> "absent"]

Malformed == [kind |-> "malformed"]

Json(state) == [kind |-> "json", data |-> state]

\* content written under an older catalog, in the previous ISO week
\* (squat done on Saturday 2025-12-20, week 51)
OlderCatalogFile ==
    Json([ metadata |-> [iso_year |-> 2025, iso_week |-> 51],
           exercises |->
             [ squat |-> [last_done_local_date |-> IsoFormat(-5),
                          times_completed_this_week |-> 1],
               hinge |-> FreshRuntimeState ] ])

\* content without a stamp, with an exercise since removed from the catalog
\* and an entry without a counter
ForeignFile ==
    Json([ exercises |->
             [ leg_press |-> [last_done_local_date |-> IsoFormat(-3),
                              times_completed_this_week |-> 2],
               unilateral |-> [last_done_local_date |-> None] ] ])

\* content written by this catalog earlier in the current ISO week: squat was
\* recorded twice for Monday 2025-12-22 (week 52)
ThisWeekFile ==
    Json([ metadata |-> [iso_year |-> 2025, iso_week |-> 52],
           exercises |->
             [ k \in CatalogKeySet |->
                 IF k = "squat"
                 THEN [last_done_local_date |-> IsoFormat(-3),
                       times_completed_this_week |-> 2]
                 ELSE FreshRuntimeState ] ])

ExternalFiles ==
    {Absent, Malformed, OlderCatalogFile, ForeignFile, ThisWeekFile}

\* --------------------------------------------------------------- inputs
\* handler invocations that may be in progress at once
Procs == {1, 2}

UnknownKey == "bench_press"

\* the keys the user reports: two high-CNS exercises, a medium one, and a
\* key that is not in the catalog
RecordKeys == {"squat", "hinge", "unilateral", UnknownKey}

\* the bot offers "today" and "yesterday" (done_command_choose_day)
RecordDates(now) == {now - 1, now}

NoArg == <<>>

NoOut == [status |-> "none"]

\* ------------------------------------------------------------ observers
LastDone(state, key) ==
    Get(Get(Get(state, "exercises", EmptyDict), key, EmptyDict),
        "last_done_local_date", None)

Count(state, key) ==
    Get(Get(Get(state, "exercises", EmptyDict), key, EmptyDict),
        "times_completed_this_week", 0)

PersistedCount(key) == IF file.kind = "json" THEN Count(file.data, key) ELSE 0

\* the stamp a state carries: <<iso_year, iso_week>>, or None when the
\* metadata lacks a stamp field
CarriedStamp(state) ==
    LET metadata == Get(state, "metadata", EmptyDict)
    IN IF {"iso_year", "iso_week"} \subseteq DOMAIN metadata
       THEN <<metadata["iso_year"], metadata["iso_week"]>>
       ELSE None

\* the stamp the store holds; None when there is no store or no stamp in it
PersistedStamp == IF file.kind = "json" THEN CarriedStamp(file.data) ELSE None

\* every key the store may hold: the catalog's and the removed exercise
StoredKeys == CatalogKeySet \cup {"leg_press"}

\* the completions saved since the stamp in the store took its present
\* value, once state is saved with one more completion of the keys in added
RecordedSinceSaving(state, added) ==
    [k \in StoredKeys |->
        (IF CarriedStamp(state) # PersistedStamp THEN 0 ELSE recordedSince[k])
          + (IF k \in added THEN 1 ELSE 0)]

\* ----------------------------------------------------------------- init
Init ==
    /\ today = 0
    /\ file \in ExternalFiles
    /\ pc = [p \in Procs |-> "idle"]
    /\ arg = [p \in Procs |-> NoArg]
    /\ mem = [p \in Procs |-> EmptyDict]
    /\ cur = [p \in Procs |-> 0]
    /\ out = [p \in Procs |-> NoOut]
    /\ nops = 0
    /\ highDays = {}
    /\ lastRecord = <<>>
    /\ recordedSince = [k \in StoredKeys |-> PersistedCount(k)]

\* -------------------------------------------------------------- actions
\* midnight passes in the user's timezone (get_current_local_date)
AdvanceDay ==
    /\ today < MaxDay
    /\ today' = today + 1
    /\ UNCHANGED <<file, pc, arg, mem, cur, out, nops, highDays, lastRecord, recordedSince>>

\* variant: the key is validated after the state has been loaded
RecordCall_LoadFirst(p, key, d) ==
    /\ pc[p] = "idle"
    /\ nops < MaxOps
    /\ nops' = nops + 1
    /\ arg' = [arg EXCEPT ![p] = <<"record", key, d>>]
    /\ IF key \notin CatalogKeySet
       THEN /\ pc' = [pc EXCEPT ![p] = "done"]
            /\ out' = [out EXCEPT ![p] = [status |-> "ValueError"]]
            /\ file' = IF file.kind = "absent"
                       THEN Json(initialize_default_training_state(today))
                       ELSE file
       ELSE /\ pc' = [pc EXCEPT ![p] = "rec_load"]
            /\ out' = out
            /\ file' = file
    /\ UNCHANGED <<today, mem, cur, highDays, lastRecord, recordedSince>>

\* record_exercise_completion_for_date: entry and key validation
RecordCall(p, key, d) ==
    /\ pc[p] = "idle"
    /\ nops < MaxOps
    /\ nops' = nops + 1
    /\ arg' = [arg EXCEPT ![p] = <<"record", key, d>>]
    /\ IF key \notin CatalogKeySet
       THEN /\ pc' = [pc EXCEPT ![p] = "done"]
            /\ out' = [out EXCEPT ![p] = [status |-> "ValueError"]]
       ELSE /\ pc' = [pc EXCEPT ![p] = "rec_load"]
            /\ out' = out
    /\ UNCHANGED <<today, file, mem, cur, highDays, lastRecord, recordedSince>>

\* variant: load writes back the state it repaired and rolled over
LoadStep_Persisting(p, init, next) ==
    CASE file.kind = "absent" ->
            /\ pc' = [pc EXCEPT ![p] = init]
            /\ UNCHANGED <<mem, file, out>>
      [] file.kind = "malformed" ->
            /\ pc' = [pc EXCEPT ![p] = "done"]
            /\ out' = [out EXCEPT ![p] = [status |-> "JSONDecodeError"]]
            /\ UNCHANGED <<mem, file>>
      [] file.kind = "json" ->
            /\ mem' = [mem EXCEPT ![p] = LoadedState(file.data, today)]
            /\ file' = Json(LoadedState(file.data, today))
            /\ pc' = [pc EXCEPT ![p] = next]
            /\ out' = out

\* variant: load writes the state back when it rolled the week over
LoadStep_SavesOnRollover(p, init, next) ==
    CASE file.kind = "absent" ->
            /\ pc' = [pc EXCEPT ![p] = init]
            /\ UNCHANGED <<mem, file, out>>
      [] file.kind = "malformed" ->
            /\ pc' = [pc EXCEPT ![p] = "done"]
            /\ out' = [out EXCEPT ![p] = [status |-> "JSONDecodeError"]]
            /\ UNCHANGED <<mem, file>>
      [] file.kind = "json" ->
            /\ mem' = [mem EXCEPT ![p] = LoadedState(file.data, today)]
            /\ file' = IF StoredStamp(file.data, today) # IsoCalendar(today)
                       THEN Json(LoadedState(file.data, today))
                       ELSE file
            /\ pc' = [pc EXCEPT ![p] = next]
            /\ out' = out

\* variant: malformed content is treated like a missing store
LoadStep_DefaultOnMalformed(p, init, next) ==
    CASE file.kind \in {"absent", "malformed"} ->
            /\ pc' = [pc EXCEPT ![p] = init]
            /\ UNCHANGED <<mem, file, out>>
      [] file.kind = "json" ->
            /\ mem' = [mem EXCEPT ![p] = LoadedState(file.data, today)]
            /\ pc' = [pc EXCEPT ![p] = next]
            /\ UNCHANGED <<file, out>>

\* load_training_state: the existence test, then the read of the store with
\* repair and rollover (json.load raises on malformed content)
LoadStep(p, init, next) ==
    CASE file.kind = "absent" ->
            /\ pc' = [pc EXCEPT ![p] = init]
            /\ UNCHANGED <<mem, file, out>>
      [] file.kind = "malformed" ->
            /\ pc' = [pc EXCEPT ![p] = "done"]
            /\ out' = [out EXCEPT ![p] = [status |-> "JSONDecodeError"]]
            /\ UNCHANGED <<mem, file>>
      [] file.kind = "json" ->
            /\ mem' = [mem EXCEPT ![p] = LoadedState(file.data, today)]
            /\ pc' = [pc EXCEPT ![p] = next]
            /\ UNCHANGED <<file, out>>

\* variant: the write never reaches the store
save_training_state_unflushed(state) == file' = file

\* save_training_state: the whole state overwrites the store
save_training_state(state) == file' = Json(state)

\* load_training_state when the store did not exist: the default state is
\* built and written, whatever the store holds by then
InitStep(p, next) ==
    /\ mem' = [mem EXCEPT ![p] = initialize_default_training_state(today)]
    /\ save_training_state(mem'[p])
    /\ recordedSince' = RecordedSinceSaving(mem'[p], {})
    /\ pc' = [pc EXCEPT ![p] = next]
    /\ out' = out

RecordLoad(p) ==
    /\ pc[p] = "rec_load"
    /\ LoadStep(p, "rec_init", "rec_save")
    /\ UNCHANGED <<today, arg, cur, nops, highDays, lastRecord, recordedSince>>

RecordInit(p) ==
    /\ pc[p] = "rec_init"
    /\ InitStep(p, "rec_save")
    /\ UNCHANGED <<today, arg, cur, nops, highDays, lastRecord>>

\* variant: the counter is set to 1 instead of incremented
Completed_SetsOne(state, key, d) ==
    LET exercises_state == state["exercises"]
        rt == exercises_state[key]
        updated == Put(Put(rt, "last_done_local_date", IsoFormat(d)),
                       "times_completed_this_week", 1)
    IN Put(state, "exercises", Put(exercises_state, key, updated))

\* variant: last_done only ever moves forward
Completed_KeepsLatest(state, key, d) ==
    LET exercises_state == state["exercises"]
        rt == exercises_state[key]
        old == Get(rt, "last_done_local_date", None)
        kept == IF IsValidIsoDate(old) /\ FromIsoFormat(old) > d
                THEN old ELSE IsoFormat(d)
        updated == Put(Put(rt, "last_done_local_date", kept),
                       "times_completed_this_week",
                       Get(rt, "times_completed_this_week", 0) + 1)
    IN Put(state, "exercises", Put(exercises_state, key, updated))

\* variant: a second completion reported for the stored date is not counted
Completed_OncePerDate(state, key, d) ==
    LET exercises_state == state["exercises"]
        rt == exercises_state[key]
        old == Get(rt, "times_completed_this_week", 0)
        updated == Put(Put(rt, "last_done_local_date", IsoFormat(d)),
                       "times_completed_this_week",
                       IF Get(rt, "last_done_local_date", None) = IsoFormat(d)
                       THEN old ELSE old + 1)
    IN Put(state, "exercises", Put(exercises_state, key, updated))

\* variant: the stamp is set to the ISO week of the reported date
Completed_StampsReportedWeek(state, key, d) ==
    LET exercises_state == state["exercises"]
        rt == exercises_state[key]
        updated == Put(Put(rt, "last_done_local_date", IsoFormat(d)),
                       "times_completed_this_week",
                       Get(rt, "times_completed_this_week", 0) + 1)
        stamped == Put(Put(Get(state, "metadata", EmptyDict),
                           "iso_year", IsoCalendar(d)[1]),
                       "iso_week", IsoCalendar(d)[2])
    IN Put(Put(state, "exercises", Put(exercises_state, key, updated)),
           "metadata", stamped)

\* the in-memory update of record_exercise_completion_for_date
Completed(state, key, d) ==
    LET exercises_state == state["exercises"]
        rt == exercises_state[key]
        updated == Put(Put(rt, "last_done_local_date", IsoFormat(d)),
                       "times_completed_this_week",
                       Get(rt, "times_completed_this_week", 0) + 1)
    IN Put(state, "exercises", Put(exercises_state, key, updated))

\* variant: the update is applied to the store as it is when saving
RecordSave_Reloading(p) ==
    /\ pc[p] = "rec_save"
    /\ file.kind = "json"
    /\ mem' = [mem EXCEPT ![p] =
                 Completed(LoadedState(file.data, today), arg[p][2], arg[p][3])]
    /\ save_training_state(mem'[p])
    /\ pc' = [pc EXCEPT ![p] = "done"]
    /\ out' = [out EXCEPT ![p] = [status |-> "ok"]]
    /\ highDays' = IF IsHighCns(arg[p][2]) THEN highDays \cup {arg[p][3]} ELSE highDays
    /\ lastRecord' = <<arg[p][2], arg[p][3], PersistedCount(arg[p][2]), Count(mem[p], arg[p][2])>>
    /\ recordedSince' = RecordedSinceSaving(mem'[p], {arg[p][2]})
    /\ UNCHANGED <<today, arg, cur, nops>>

RecordSave(p) ==
    /\ pc[p] = "rec_save"
    /\ mem' = [mem EXCEPT ![p] = Completed(mem[p], arg[p][2], arg[p][3])]
    /\ save_training_state(mem'[p])
    /\ pc' = [pc EXCEPT ![p] = "done"]
    /\ out' = [out EXCEPT ![p] = [status |-> "ok"]]
    /\ highDays' = IF IsHighCns(arg[p][2]) THEN highDays \cup {arg[p][3]} ELSE highDays
    /\ lastRecord' = <<arg[p][2], arg[p][3], PersistedCount(arg[p][2]), Count(mem[p], arg[p][2])>>
    /\ recordedSince' = RecordedSinceSaving(mem'[p], {arg[p][2]})
    /\ UNCHANGED <<today, arg, cur, nops>>

\* get_training_recommendations_for_today: entry
RecommendCall(p) ==
    /\ pc[p] = "idle"
    /\ nops < MaxOps
    /\ nops' = nops + 1
    /\ arg' = [arg EXCEPT ![p] = <<"recommend">>]
    /\ pc' = [pc EXCEPT ![p] = "rcm_load"]
    /\ UNCHANGED <<today, file, mem, cur, out, highDays, lastRecord, recordedSince>>

RecommendLoad(p) ==
    /\ pc[p] = "rcm_load"
    /\ LoadStep(p, "rcm_init", "rcm_classify")
    /\ UNCHANGED <<today, arg, cur, nops, highDays, lastRecord, recordedSince>>

RecommendInit(p) ==
    /\ pc[p] = "rcm_init"
    /\ InitStep(p, "rcm_classify")
    /\ UNCHANGED <<today, arg, cur, nops, highDays, lastRecord>>

\* the second clock read and the classification loop
RecommendClassify(p) ==
    /\ pc[p] = "rcm_classify"
    /\ cur' = [cur EXCEPT ![p] = today]
    /\ out' = [out EXCEPT ![p] =
                 [status |-> "recommendations", result |-> Recommendations(mem[p], today)]]
    /\ pc' = [pc EXCEPT ![p] = "done"]
    /\ UNCHANGED <<today, file, arg, mem, nops, highDays, lastRecord, recordedSince>>

\* the handler returns; its locals are dropped
Return(p) ==
    /\ pc[p] = "done"
    /\ pc' = [pc EXCEPT ![p] = "idle"]
    /\ arg' = [arg EXCEPT ![p] = NoArg]
    /\ mem' = [mem EXCEPT ![p] = EmptyDict]
    /\ cur' = [cur EXCEPT ![p] = 0]
    /\ out' = [out EXCEPT ![p] = NoOut]
    /\ UNCHANGED <<today, file, nops, highDays, lastRecord, recordedSince>>

\* one handler at a time: the bot's event loop runs each handler to its end
Next ==
    \/ AdvanceDay
    \/ \E key \in RecordKeys, d \in RecordDates(today) : RecordCall(1, key, d)
    \/ RecordLoad(1)
    \/ RecordInit(1)
    \/ RecordSave(1)
    \/ RecommendCall(1)
    \/ RecommendLoad(1)
    \/ RecommendInit(1)
    \/ RecommendClassify(1)
    \/ Return(1)

Spec == Init /\ [][Next]_vars

\* the keys reported in the runs with concurrent handlers
RaceKeys == {"squat", "unilateral"}

RaceCall(p) ==
    /\ nops < MaxRaceOps
    /\ \/ \E key \in RaceKeys : RecordCall(p, key, today)
       \/ RecommendCall(p)

\* several handlers over the same store with no mutual exclusion
NextRace ==
    \/ AdvanceDay
    \/ \E p \in Procs : RaceCall(p)
    \/ \E p \in Procs : RecordLoad(p)
    \/ \E p \in Procs : RecordInit(p)
    \/ \E p \in Procs : RecordSave(p)
    \/ \E p \in Procs : RecommendLoad(p)
    \/ \E p \in Procs : RecommendInit(p)
    \/ \E p \in Procs : RecommendClassify(p)
    \/ \E p \in Procs : Return(p)

InitRace == Init /\ file \in {Absent, OlderCatalogFile}

SpecRace == InitRace /\ [][NextRace]_vars

TypeOK ==
    /\ today \in 0..MaxDay
    /\ file.kind \in {"absent", "malformed", "json"}
    /\ nops \in 0..MaxOps

\* ---------------------------------------------------- disciplined usage
\* what /today shows for the store as it is now (no list when load fails)
CurrentlyListed ==
    LET state == IF file.kind = "json" THEN LoadedState(file.data, today)
                 ELSE initialize_default_training_state(today)
        r == Recommendations(state, today)
    IN IF file.kind = "malformed" THEN {}
       ELSE Range(r.must_do_today) \cup Range(r.optional_today)

\* the user reports only "today" and only what /today currently offers
DisciplinedRecordCall(p) ==
    \E key \in RecordKeys \cap CurrentlyListed : RecordCall(p, key, today)

NextDisciplined ==
    \/ AdvanceDay
    \/ DisciplinedRecordCall(1)
    \/ RecordLoad(1)
    \/ RecordInit(1)
    \/ RecordSave(1)
    \/ RecommendCall(1)
    \/ RecommendLoad(1)
    \/ RecommendInit(1)
    \/ RecommendClassify(1)
    \/ Return(1)

SpecDisciplined == Init /\ [][NextDisciplined]_vars

\* ------------------------------------------------------------ observers
HasRecommendations(p) == out[p].status = "recommendations"

RecordOk(p) == pc[p] = "done" /\ out[p].status = "ok"

IndexOf(key) == CHOOSE i \in 1..Len(ExerciseKeys) : ExerciseKeys[i] = key

InCatalogOrder(list) ==
    \A i, j \in 1..Len(list) :
        i < j => /\ list[i] \in CatalogKeySet
                 /\ list[j] \in CatalogKeySet
                 /\ IndexOf(list[i]) < IndexOf(list[j])

\* ---------------------------------------------------------------- claims

\* C1: whenever some high-CNS exercise was last done on the day before the
\* date recommend used, every high-CNS exercise of the catalog is in
\* cns_blocked_today, whatever the other high-CNS exercises' dates are.
C1_CnsGlobalBlock ==
    \A p \in Procs :
        (HasRecommendations(p)
           /\ \E k \in HighKeys : LastDone(mem[p], k) = IsoFormat(cur[p] - 1))
        => \A k \in HighKeys : k \in Range(out[p].result.cns_blocked_today)

\* C2: the four lists of every recommendation partition the catalog keys:
\* each catalog key is in exactly one list exactly once, no other key is in
\* any list, and each list is in catalog iteration order.
C2_ExclusiveClassification ==
    \A p \in Procs :
        HasRecommendations(p) =>
            LET r == out[p].result
                all == r.must_do_today \o r.optional_today
                         \o r.cns_blocked_today \o r.not_ready_by_rest
            IN /\ Len(all) = Cardinality(CatalogKeySet)
               /\ Range(all) = CatalogKeySet
               /\ InCatalogOrder(r.must_do_today)
               /\ InCatalogOrder(r.optional_today)
               /\ InCatalogOrder(r.cns_blocked_today)
               /\ InCatalogOrder(r.not_ready_by_rest)

\* C2 witness: a recommendation with at least three non-empty lists
C2_Witness ==
    /\ HasRecommendations(1)
    /\ out[1].result.cns_blocked_today # <<>>
    /\ out[1].result.not_ready_by_rest # <<>>
    /\ Len(out[1].result.must_do_today) >= 2

\* a step of p that completes a load and returns a state
LoadReturns(p) ==
    /\ pc[p] \in {"rec_load", "rcm_load", "rec_init", "rcm_init"}
    /\ pc'[p] \in {"rec_save", "rcm_classify"}

\* ... having read the store
LoadReads(p) == LoadReturns(p) /\ pc[p] \in {"rec_load", "rcm_load"}

\* ... having found no store and written the default state
LoadInits(p) == LoadReturns(p) /\ pc[p] \in {"rec_init", "rcm_init"}

\* a load in the week of the stored stamp keeps every counter; a load in
\* another week returns all counters zeroed under the current stamp
LoadKeepsOrZeroes ==
    \A p \in Procs :
        LoadReads(p) =>
            IF StoredStamp(file.data, today) = IsoCalendar(today)
            THEN \A k \in DOMAIN Get(file.data, "exercises", EmptyDict) :
                     Count(mem'[p], k) = Count(file.data, k)
            ELSE /\ \A k \in DOMAIN mem'[p]["exercises"] :
                        mem'[p]["exercises"][k]["times_completed_this_week"] = 0
                 /\ mem'[p]["metadata"]["iso_year"] = IsoCalendar(today)[1]
                 /\ mem'[p]["metadata"]["iso_week"] = IsoCalendar(today)[2]

\* a completion whose record loaded in the current week is still counted by
\* a load of the store made now
NewWeekCompletionsKept ==
    \A p \in Procs :
        (RecordOk(p) /\ StoredStamp(mem[p], today) = IsoCalendar(today)) =>
            /\ file.kind = "json"
            /\ Count(LoadedState(file.data, today), arg[p][2]) >= 1
            /\ \A k \in CatalogKeySet :
                   Count(LoadedState(file.data, today), k) = Count(mem[p], k)

\* C3: week rollover idempotence under serial use: a load while the stored
\* stamp equals the current ISO week leaves every counter unchanged, a load
\* after the week changed zeroes all counters and stamps the current week,
\* and completions recorded in the new week are not zeroed by a later load
\* in that week.
C3_WeekRolloverIdempotence ==
    [][LoadKeepsOrZeroes]_vars /\ []NewWeekCompletionsKept

\* C3 witness: a completion recorded after the week changed (its load
\* zeroed the older counters) is counted under the new stamp
C3_Witness ==
    /\ RecordOk(1)
    /\ today = 4
    /\ file.kind = "json"
    /\ StoredStamp(file.data, today) = <<2026, 1>>
    /\ Count(file.data, arg[1][2]) = 1
    /\ \E k \in CatalogKeySet :
           /\ k # arg[1][2]
           /\ LastDone(file.data, k) # None
           /\ Count(file.data, k) = 0

\* the counter persisted for key, 0 when the key is not in the store
RecordSaves(p) == pc[p] = "rec_save" /\ pc'[p] = "done"

\* C4 (as stated): after record(key, d), a load returns last_done = d for
\* key and a counter exactly 1 greater than the one persisted before.
C4_RoundTrip ==
    [][\A p \in Procs :
          RecordSaves(p) =>
              LET after == LoadedState(file'.data, today')
              IN /\ LastDone(after, arg[p][2]) = IsoFormat(arg[p][3])
                 /\ FromIsoFormat(LastDone(after, arg[p][2])) = arg[p][3]
                 /\ Count(after, arg[p][2]) = PersistedCount(arg[p][2]) + 1]_vars

\* neither the load inside record nor a load made now rolls the week over
NoRolloverAround(p) ==
    /\ file.kind = "json"
    /\ StoredStamp(file.data, today) = IsoCalendar(today)
    /\ StoredStamp(mem[p], today) = IsoCalendar(today)

\* C4 (amended): after record(key, d), a load returns last_done = d for key;
\* the counter is exactly 1 greater than the one persisted before when
\* neither the load inside record nor the following load rolls the week
\* over, is 0 when the following load rolls over, and is 1 when only the
\* load inside record did.
C4_RoundTripAmended ==
    [][\A p \in Procs :
          RecordSaves(p) =>
              LET after == LoadedState(file'.data, today')
                  key == arg[p][2]
              IN /\ LastDone(after, key) = IsoFormat(arg[p][3])
                 /\ FromIsoFormat(LastDone(after, key)) = arg[p][3]
                 /\ NoRolloverAround(p) => Count(after, key) = PersistedCount(key) + 1
                 /\ StoredStamp(mem[p], today) # IsoCalendar(today) => Count(after, key) = 0
                 /\ (/\ StoredStamp(mem[p], today) = IsoCalendar(today)
                     /\ ~NoRolloverAround(p)) => Count(after, key) = 1]_vars

\* C4 witness: a second completion of the same exercise in the same week
C4_Witness ==
    /\ RecordOk(1)
    /\ file.kind = "json"
    /\ StoredStamp(file.data, today) = IsoCalendar(today)
    /\ Count(file.data, arg[1][2]) = 2
    /\ LastDone(file.data, arg[1][2]) = IsoFormat(arg[1][3])

\* C5: lost update. When a record saves a state it loaded before another
\* record of a different exercise completed, the save overwrites that
\* completed record: its date and its increment are no longer persisted.
\* The same holds when a load (of a record or of a recommend) that found no
\* store writes the default state after another record completed.
C5_LostUpdate ==
    [][\A p, q \in Procs :
        /\ (/\ p # q
            /\ RecordOk(p)
            /\ LoadInits(q)
            /\ file.kind = "json"
            /\ LastDone(file.data, arg[p][2]) = IsoFormat(arg[p][3]))
           => /\ LastDone(file'.data, arg[p][2]) = None
              /\ Count(file'.data, arg[p][2]) = 0
        /\
          (/\ p # q
           /\ RecordOk(p)
           /\ RecordSaves(q)
           /\ arg[q][2] # arg[p][2]
           /\ LastDone(file.data, arg[p][2]) = IsoFormat(arg[p][3])
           /\ LastDone(mem[q], arg[p][2]) # IsoFormat(arg[p][3]))
          => /\ LastDone(file'.data, arg[p][2]) # IsoFormat(arg[p][3])
             /\ LastDone(file'.data, arg[p][2]) = LastDone(mem[q], arg[p][2])
             /\ Count(file'.data, arg[p][2]) = Count(mem[q], arg[p][2])]_vars

\* C5 witness: two records of different exercises have both completed and
\* the store holds no trace of one of them
C5_Witness ==
    \E p, q \in Procs :
        /\ p # q
        /\ RecordOk(p)
        /\ RecordOk(q)
        /\ arg[p][2] # arg[q][2]
        /\ LastDone(file.data, arg[q][2]) = IsoFormat(arg[q][3])
        /\ LastDone(file.data, arg[p][2]) = None
        /\ Count(file.data, arg[p][2]) = 0

RestIs48(key) ==
    EXERCISE_DEFINITIONS_BY_KEY[key].minimal_rest_hours_between_sessions = 48

InList(list, key) == key \in Range(list)

\* C6 (as stated): an exercise with 48 hours of minimal rest last done on
\* the day before is in not_ready_by_rest and in neither must_do_today nor
\* optional_today.
C6_RestGate ==
    \A p \in Procs : \A k \in CatalogKeySet :
        (HasRecommendations(p) /\ RestIs48(k)
           /\ LastDone(mem[p], k) = IsoFormat(cur[p] - 1))
        => /\ InList(out[p].result.not_ready_by_rest, k)
           /\ ~InList(out[p].result.must_do_today, k)
           /\ ~InList(out[p].result.optional_today, k)

\* C6 (amended): such an exercise is in not_ready_by_rest, or, when it is
\* high-CNS and was_high_cns_yesterday holds, in cns_blocked_today; it is in
\* neither must_do_today nor optional_today.
C6_RestGateAmended ==
    \A p \in Procs : \A k \in CatalogKeySet :
        (HasRecommendations(p) /\ RestIs48(k)
           /\ LastDone(mem[p], k) = IsoFormat(cur[p] - 1))
        => /\ IF IsHighCns(k) /\ WasHighCnsYesterday(mem[p], cur[p])
              THEN /\ InList(out[p].result.cns_blocked_today, k)
                   /\ ~InList(out[p].result.not_ready_by_rest, k)
              ELSE /\ InList(out[p].result.not_ready_by_rest, k)
                   /\ ~InList(out[p].result.cns_blocked_today, k)
           /\ ~InList(out[p].result.must_do_today, k)
           /\ ~InList(out[p].result.optional_today, k)

\* C6 witness: both cases in one recommendation: unilateral and squat were
\* done the day before; one waits for rest, the other is CNS-blocked
C6_Witness ==
    /\ HasRecommendations(1)
    /\ LastDone(mem[1], "unilateral") = IsoFormat(cur[1] - 1)
    /\ InList(out[1].result.not_ready_by_rest, "unilateral")
    /\ LastDone(mem[1], "squat") = IsoFormat(cur[1] - 1)
    /\ InList(out[1].result.cns_blocked_today, "squat")

\* p holds a state returned by load (possibly updated by record)
HoldsState(p) ==
    \/ pc[p] \in {"rec_save", "rcm_classify"}
    \/ pc[p] = "done" /\ out[p].status \in {"ok", "recommendations"}

\* C7 (as stated): every state returned by load and every state the
\* handlers persist has exactly the catalog's keys.
C7_KeySet ==
    /\ \A p \in Procs : HoldsState(p) => DOMAIN mem[p]["exercises"] = CatalogKeySet
    /\ \A p \in Procs : RecordOk(p) => DOMAIN file.data["exercises"] = CatalogKeySet

\* C7 (amended): a load returns the persisted keys plus every missing
\* catalog key, the latter with last_done_local_date unset and counter 0,
\* and raises no error; non-catalog keys of the persisted content are kept,
\* so the key set contains the catalog's and equals it exactly when the
\* content loaded had no other key; a save persists the key set it was given.
C7_KeySetAmended ==
    [][\A p \in Procs :
          /\ LoadReads(p) =>
                LET persisted == DOMAIN Get(file.data, "exercises", EmptyDict)
                IN /\ DOMAIN mem'[p]["exercises"] = persisted \cup CatalogKeySet
                   /\ \A k \in CatalogKeySet \ persisted :
                          mem'[p]["exercises"][k] = FreshRuntimeState
                   /\ persisted \subseteq CatalogKeySet
                        => DOMAIN mem'[p]["exercises"] = CatalogKeySet
          /\ LoadInits(p) =>
                /\ DOMAIN mem'[p]["exercises"] = CatalogKeySet
                /\ DOMAIN file'.data["exercises"] = CatalogKeySet
          /\ (pc[p] \in {"rec_load", "rcm_load"} /\ pc'[p] = "done")
                => file.kind = "malformed"
          /\ RecordSaves(p) =>
                /\ DOMAIN file'.data["exercises"] = DOMAIN mem[p]["exercises"]
                /\ CatalogKeySet \subseteq DOMAIN file'.data["exercises"]]_vars

\* C7 witness: content written under an older catalog has been loaded and
\* the exercises it lacked are present, zeroed
C7_Witness ==
    /\ pc[1] = "rcm_classify"
    /\ file = OlderCatalogFile
    /\ DOMAIN mem[1]["exercises"] = CatalogKeySet
    /\ mem[1]["exercises"]["core"] = FreshRuntimeState

RecommendSteps(p) ==
    \/ pc[p] = "idle" /\ pc'[p] = "rcm_load"
    \/ pc[p] = "rcm_load" /\ pc'[p] # "rcm_load"
    \/ pc[p] = "rcm_init" /\ pc'[p] # "rcm_init"
    \/ pc[p] = "rcm_classify" /\ pc'[p] # "rcm_classify"

\* C8 (as stated): no step of a recommend call changes the persisted store,
\* whatever the store holds, also when nothing is persisted yet.
C8_RecommendNoSave ==
    [][\A p \in Procs : RecommendSteps(p) => file' = file]_vars

\* C8 (amended): when something is persisted (well-formed or not), no step
\* of a recommend call changes the store; when nothing is persisted yet, the
\* load inside recommend writes the default state, and that is its only
\* write.
C8_RecommendNoSaveAmended ==
    [][\A p \in Procs :
          RecommendSteps(p) =>
              IF pc[p] = "rcm_init"
              THEN /\ file.kind = "absent"
                   /\ file' = Json(initialize_default_training_state(today))
              ELSE file' = file]_vars

\* C8 witness: a recommendation computed from a state rolled over in memory
\* while the store still holds the older stamp
C8_Witness ==
    /\ HasRecommendations(1)
    /\ file = OlderCatalogFile
    /\ StoredStamp(mem[1], today) # StoredStamp(file.data, today)

\* C9: record with a key outside the catalog ends at once with the
\* unknown-exercise error: no load, no save, no state held, and the store
\* (also its absence) is as before.
C9_UnknownKeyRejected ==
    [][\A p \in Procs :
          (pc[p] = "idle" /\ pc'[p] # "idle"
             /\ arg'[p][1] = "record" /\ arg'[p][2] \notin CatalogKeySet)
          => /\ pc'[p] = "done"
             /\ out'[p].status = "ValueError"
             /\ mem'[p] = EmptyDict
             /\ file' = file]_vars

\* C9 witness: the unknown key was rejected and there is still no store
C9_Witness ==
    /\ pc[1] = "done"
    /\ out[1].status = "ValueError"
    /\ arg[1][2] = UnknownKey
    /\ file = Absent

\* the days of high-CNS completions, recorded in this run or persisted
AllHighDays ==
    highDays \cup (IF file.kind = "json" THEN ParsedDates(file.data, HighKeys) ELSE {})

\* C10: when every completion is reported for today and only for an
\* exercise /today currently offers, no two high-CNS completions are dated
\* on consecutive days.
C10_NoConsecutiveHighCns ==
    \A d \in AllHighDays : d + 1 \notin AllHighDays

\* C10 witness: the day after a high-CNS completion, with every high-CNS
\* exercise blocked, and an earlier high-CNS day two days back
C10_Witness ==
    /\ HasRecommendations(1)
    /\ cur[1] - 1 \in highDays
    /\ cur[1] - 3 \in highDays
    /\ \A k \in HighKeys : InList(out[1].result.cns_blocked_today, k)

\* a state as initialize_default_training_state builds it: exactly the
\* catalog's keys, no date, every counter 0
NewlyInitialized(state) ==
    /\ DOMAIN Get(state, "exercises", EmptyDict) = CatalogKeySet
    /\ \A k \in CatalogKeySet : LastDone(state, k) = None /\ Count(state, k) = 0

\* the catalog's keys with a positive weekly target, in catalog order
WithPositiveTarget ==
    SelectSeq(ExerciseKeys,
              LAMBDA k : EXERCISE_DEFINITIONS_BY_KEY[k].times_per_week_target > 0)

\* C11: for a newly initialized state, on every day, the recommendation
\* puts every exercise with a positive weekly target in must_do_today,
\* leaves cns_blocked_today and not_ready_by_rest empty and has no gap
\* warning.
C11_Freshness ==
    \A p \in Procs :
        (HasRecommendations(p) /\ NewlyInitialized(mem[p])) =>
            /\ out[p].result.must_do_today = WithPositiveTarget
            /\ out[p].result.cns_blocked_today = <<>>
            /\ out[p].result.not_ready_by_rest = <<>>
            /\ out[p].result.log_gap_warning = None

\* C11 witness: the recommendation for a state initialized days earlier and
\* never recorded into, computed in the following ISO week
C11_Witness ==
    /\ HasRecommendations(1)
    /\ NewlyInitialized(mem[1])
    /\ cur[1] >= 4
    /\ file.kind = "json"
    /\ StoredStamp(file.data, cur[1]) # IsoCalendar(cur[1])
    /\ Len(out[1].result.must_do_today) = Cardinality(CatalogKeySet)

\* rest is satisfied: never done, or the whole days since last_done, in
\* hours, reach the exercise's minimal rest
RestSatisfied(state, key, now) ==
    \/ LastDone(state, key) = None
    \/ /\ IsValidIsoDate(LastDone(state, key))
       /\ (now - FromIsoFormat(LastDone(state, key))) * 24
            >= EXERCISE_DEFINITIONS_BY_KEY[key].minimal_rest_hours_between_sessions

\* a weekly target of 2 that has been met exactly
QuotaOfTwoMet(state, key) ==
    /\ EXERCISE_DEFINITIONS_BY_KEY[key].times_per_week_target = 2
    /\ Count(state, key) = 2

\* C12 (as stated): every catalog exercise with target 2, completed twice
\* this week, whose rest is satisfied is in optional_today and not in
\* must_do_today.
C12_QuotaExhaustion ==
    \A p \in Procs : \A k \in CatalogKeySet :
        (HasRecommendations(p) /\ QuotaOfTwoMet(mem[p], k)
           /\ RestSatisfied(mem[p], k, cur[p]))
        => /\ InList(out[p].result.optional_today, k)
           /\ ~InList(out[p].result.must_do_today, k)

\* C12 (amended): every catalog exercise with target 2, completed twice this
\* week, whose rest is satisfied is not in must_do_today; it is in
\* optional_today, except a high-CNS exercise on the day after a high-CNS
\* completion, which is in cns_blocked_today.
C12_QuotaExhaustionAmended ==
    \A p \in Procs : \A k \in CatalogKeySet :
        (HasRecommendations(p) /\ QuotaOfTwoMet(mem[p], k)
           /\ RestSatisfied(mem[p], k, cur[p]))
        => /\ ~InList(out[p].result.must_do_today, k)
           /\ IF IsHighCns(k) /\ WasHighCnsYesterday(mem[p], cur[p])
              THEN InList(out[p].result.cns_blocked_today, k)
              ELSE InList(out[p].result.optional_today, k)

\* C12 witness: two exercises have met a quota of 2 with their rest
\* satisfied and are optional, while another exercise is still due
C12_Witness ==
    /\ HasRecommendations(1)
    /\ \E k \in CatalogKeySet :
          /\ ~IsHighCns(k)
          /\ QuotaOfTwoMet(mem[1], k)
          /\ RestSatisfied(mem[1], k, cur[1])
          /\ InList(out[1].result.optional_today, k)
    /\ \E k \in HighKeys :
          /\ QuotaOfTwoMet(mem[1], k)
          /\ RestSatisfied(mem[1], k, cur[1])
          /\ InList(out[1].result.optional_today, k)
    /\ out[1].result.must_do_today # <<>>

\* the dates of the entries of a state whose last_done is set
DatesSet(state) ==
    { FromIsoFormat(LastDone(state, k)) :
        k \in { j \in DOMAIN Get(state, "exercises", EmptyDict) :
                  LastDone(state, j) # None } }

IsLatestOf(d, ds) == d \in ds /\ \A x \in ds : x <= d

\* C13: the recommendation carries a gap warning exactly when some exercise
\* has last_done set and today is at least 2 days after the latest such date;
\* the warning reports that date and the number of days (3 when the latest
\* date is 3 days back); there is none when the latest date is yesterday or
\* no date is set.
C13_GapWarning ==
    \A p \in Procs :
        HasRecommendations(p) =>
            LET ds == DatesSet(mem[p])
                w == out[p].result.log_gap_warning
            IN /\ (w # None) <=> (\E d \in ds : IsLatestOf(d, ds) /\ cur[p] - d >= 2)
               /\ \A d \in ds :
                     (IsLatestOf(d, ds) /\ w # None) => w = <<IsoFormat(d), cur[p] - d>>
               /\ IsLatestOf(cur[p] - 3, ds) => w = <<IsoFormat(cur[p] - 3), 3>>
               /\ IsLatestOf(cur[p] - 1, ds) => w = None
               /\ ds = {} => w = None

\* C13 witness: a warning of 3 days for a completion recorded on day 0 and
\* an older date on another entry
C13_Witness ==
    /\ HasRecommendations(1)
    /\ cur[1] = 3
    /\ out[1].result.log_gap_warning = <<IsoFormat(0), 3>>
    /\ \E d \in DatesSet(mem[1]) : d < 0

\* the steps of a record call that got past the key check
RecordSteps(p) ==
    \/ pc[p] = "idle" /\ pc'[p] = "rec_load"
    \/ pc[p] = "rec_load" /\ pc'[p] # "rec_load"
    \/ pc[p] = "rec_init" /\ pc'[p] # "rec_init"
    \/ pc[p] = "rec_save" /\ pc'[p] # "rec_save"

\* C14 (as stated): a successful record call writes the store exactly once,
\* whatever the store held before, also when nothing was persisted yet: no
\* step of the call other than its final save changes the store.
C14_RecordWritesOnce ==
    [][\A p \in Procs : (RecordSteps(p) /\ ~RecordSaves(p)) => file' = file]_vars

\* C14 (amended): a successful record call ends with exactly one save of the
\* updated state; when a persisted state exists that is its only write; when
\* nothing is persisted yet the load inside it first writes the default
\* state, so the store is written twice.
C14_RecordWritesOnceAmended ==
    [][\A p \in Procs :
          /\ RecordSteps(p) =>
                IF RecordSaves(p)
                THEN /\ out'[p].status = "ok"
                     /\ file' = Json(Completed(mem[p], arg[p][2], arg[p][3]))
                ELSE IF pc[p] = "rec_init"
                THEN /\ file.kind = "absent"
                     /\ file' = Json(initialize_default_training_state(today))
                     /\ pc'[p] = "rec_save"
                ELSE file' = file
          /\ (pc[p] # "done" /\ pc'[p] = "done" /\ out'[p].status = "ok")
                => RecordSaves(p)]_vars

\* C14 witness: the first record ever made has completed: the store holds
\* the default state with that one completion
C14_Witness ==
    /\ RecordOk(1)
    /\ nops = 1
    /\ file = Json(Completed(initialize_default_training_state(today),
                             arg[1][2], arg[1][3]))

\* C15: a load that finds a persisted state leaves the store as it is, also
\* when it adds missing keys or rolls the week over in memory; the store
\* changes only by record's save or by the first-ever initialization, which
\* happens only when nothing is persisted.
C15_LoadDoesNotSave ==
    [][/\ \A p \in Procs :
             LoadReads(p) => /\ file' = file
                             /\ mem'[p] = LoadedState(file.data, today)
       /\ \A p \in Procs : LoadInits(p) => file.kind = "absent"
       /\ file' # file => \E p \in Procs : RecordSaves(p) \/ LoadInits(p)]_vars

\* C15 witness: inside record, after the load and before the save, the state
\* in memory has the missing keys added and the week rolled over while the
\* store still holds the older content
C15_Witness ==
    /\ pc[1] = "rec_save"
    /\ file = OlderCatalogFile
    /\ DOMAIN mem[1]["exercises"] = CatalogKeySet
    /\ StoredStamp(mem[1], today) = IsoCalendar(today)
    /\ Count(mem[1], "squat") = 0
    /\ Count(file.data, "squat") = 1

\* C16: a load that finds nothing persisted returns a state stamped with the
\* current ISO year and week in which every catalog key has no date and
\* counter 0, and the store then holds exactly the returned state.
C16_FirstEverLoad ==
    [][\A p \in Procs :
          LoadInits(p) =>
              /\ DOMAIN mem'[p] = {"metadata", "exercises"}
              /\ mem'[p]["metadata"] = [iso_year |-> IsoCalendar(today)[1],
                                        iso_week |-> IsoCalendar(today)[2]]
              /\ NewlyInitialized(mem'[p])
              /\ file' = Json(mem'[p])]_vars

\* C16 witness: the first call ever made is a recommend in the first week of
\* 2026; its load has returned and the store holds the returned state
C16_Witness ==
    /\ pc[1] = "rcm_classify"
    /\ nops = 1
    /\ today >= 4
    /\ NewlyInitialized(mem[1])
    /\ StoredStamp(mem[1], 0) = <<2026, 1>>
    /\ file = Json(mem[1])

\* C17: when the persisted content is malformed, the load inside record and
\* inside recommend ends the call with the decoding error: no state is
\* returned, no default state replaces the content, and the content stays as
\* it is.
C17_MalformedFatal ==
    [][/\ \A p \in Procs :
             (pc[p] \in {"rec_load", "rcm_load"} /\ pc'[p] # pc[p]
                /\ file.kind = "malformed")
             => /\ pc'[p] = "done"
                /\ out'[p].status = "JSONDecodeError"
                /\ mem'[p] = EmptyDict
                /\ file' = file
       /\ file.kind = "malformed" => file' = file]_vars

\* C17 witness: a record of a catalog key has failed on malformed content
\* after an earlier call, and the content is still there
C17_Witness ==
    /\ pc[1] = "done"
    /\ out[1].status = "JSONDecodeError"
    /\ arg[1][1] = "record"
    /\ arg[1][2] \in CatalogKeySet
    /\ nops >= 2
    /\ file = Malformed

\* C18: every exercise in must_do_today or optional_today has its rest
\* satisfied and is not a high-CNS exercise on a day when
\* was_high_cns_yesterday holds; whatever weekly quota remains, a high-CNS
\* exercise on such a day is in cns_blocked_today and any other exercise
\* whose rest is not satisfied is in not_ready_by_rest.
C18_HardGatesBeforeQuota ==
    \A p \in Procs :
        HasRecommendations(p) =>
            LET r == out[p].result
                blocked(k) == IsHighCns(k) /\ WasHighCnsYesterday(mem[p], cur[p])
            IN /\ \A k \in Range(r.must_do_today) \cup Range(r.optional_today) :
                     /\ RestSatisfied(mem[p], k, cur[p])
                     /\ ~blocked(k)
               /\ \A k \in CatalogKeySet :
                     /\ blocked(k) => InList(r.cns_blocked_today, k)
                     /\ (~blocked(k) /\ ~RestSatisfied(mem[p], k, cur[p]))
                           => InList(r.not_ready_by_rest, k)

\* C18 witness: one exercise with weekly quota left is held back by the CNS
\* gate and another by its rest, while others are due
C18_Witness ==
    /\ HasRecommendations(1)
    /\ \E k \in CatalogKeySet :
          /\ InList(out[1].result.cns_blocked_today, k)
          /\ Count(mem[1], k) < EXERCISE_DEFINITIONS_BY_KEY[k].times_per_week_target
    /\ \E k \in CatalogKeySet :
          /\ InList(out[1].result.not_ready_by_rest, k)
          /\ Count(mem[1], k) < EXERCISE_DEFINITIONS_BY_KEY[k].times_per_week_target
    /\ out[1].result.must_do_today # <<>>

\* the save step of a record made in a new ISO week for a date in the week
\* whose stamp the store still carries, after a load that rolled over
CrossWeekBackDated(p) ==
    /\ RecordSaves(p)
    /\ file.kind = "json"
    /\ StoredStamp(file.data, today) # IsoCalendar(today)
    /\ IsoCalendar(arg[p][3]) = StoredStamp(file.data, today)
    /\ StoredStamp(mem[p], today) = IsoCalendar(today)

\* C19: a record made in a new ISO week for a date in the previous week,
\* while the store still carries the previous week's stamp, persists a state
\* with the current week's stamp, counter 1 for the recorded key and counter
\* 0 for every other key.
C19_CrossWeekBackDated ==
    [][\A p \in Procs :
          CrossWeekBackDated(p) =>
              /\ file'.data["metadata"] = [iso_year |-> IsoCalendar(today)[1],
                                           iso_week |-> IsoCalendar(today)[2]]
              /\ Count(file'.data, arg[p][2]) = 1
              /\ LastDone(file'.data, arg[p][2]) = IsoFormat(arg[p][3])
              /\ \A k \in DOMAIN file'.data["exercises"] \ {arg[p][2]} :
                    Count(file'.data, k) = 0]_vars

\* C19 witness: on Monday 2025-12-29 the second call of the run has recorded
\* a key for Sunday; the store carries the stamp of 2026 week 1, counter 1
\* for that key, and counter 0 for a key that was recorded in week 52
C19_Witness ==
    /\ RecordOk(1)
    /\ nops = 2
    /\ today = 4
    /\ arg[1][3] = 3
    /\ StoredStamp(file.data, 0) = <<2026, 1>>
    /\ Count(file.data, arg[1][2]) = 1
    /\ \E k \in CatalogKeySet \ {arg[1][2]} :
          /\ LastDone(file.data, k) \in {IsoFormat(d) : d \in 0..3}
          /\ Count(file.data, k) = 0

\* the save step of record(key, today - 1) when the latest saved completion
\* was record(key, today)
BackDatedAfterToday(p) ==
    /\ RecordSaves(p)
    /\ lastRecord # <<>>
    /\ lastRecord[1] = arg[p][2]
    /\ lastRecord[2] = today
    /\ arg[p][3] = today - 1

\* C20 (as stated): record(key, d) sets last_done to d whatever date is
\* stored; record(key, today) followed by record(key, today - 1) leaves
\* last_done = today - 1 and the counter 2 above what was persisted before
\* the first of the two.
C20_UnconditionalOverwrite ==
    [][\A p \in Procs :
          /\ RecordSaves(p) =>
                LastDone(file'.data, arg[p][2]) = IsoFormat(arg[p][3])
          /\ BackDatedAfterToday(p) =>
                /\ LastDone(file'.data, arg[p][2]) = IsoFormat(today - 1)
                /\ Count(file'.data, arg[p][2]) = lastRecord[3] + 2]_vars

\* C20 (amended): record(key, d) sets last_done to d whatever date is
\* stored; record(key, today) followed by record(key, today - 1) leaves
\* last_done = today - 1, a date earlier than the one it replaces, and the
\* counter 2 above what the load inside the first record returned: the
\* persisted counter, or 0 when that load rolled the week over.
C20_UnconditionalOverwriteAmended ==
    [][\A p \in Procs :
          /\ RecordSaves(p) =>
                LastDone(file'.data, arg[p][2]) = IsoFormat(arg[p][3])
          /\ BackDatedAfterToday(p) =>
                /\ LastDone(mem[p], arg[p][2]) = IsoFormat(today)
                /\ LastDone(file'.data, arg[p][2]) = IsoFormat(today - 1)
                /\ Count(file'.data, arg[p][2]) = lastRecord[4] + 2
                /\ lastRecord[4] \in {lastRecord[3], 0}]_vars

\* C20 witness: record(key, today) and then record(key, today - 1) have
\* completed on the same day: the stored date is yesterday's and the
\* counter is 2 above the one found before the first
C20_Witness ==
    /\ RecordOk(1)
    /\ nops = 2
    /\ lastRecord = <<arg[1][2], today - 1, lastRecord[4], lastRecord[4]>>
    /\ LastDone(file.data, arg[1][2]) = IsoFormat(today - 1)
    /\ Count(file.data, arg[1][2]) = 2
    /\ highDays = {today - 1, today}

\* C21: the state returned by every load carries the current local ISO year
\* and week as its stamp, whatever deserializable content is persisted, also
\* content without metadata or without the stamp fields.
C21_StampCurrency ==
    [][\A p \in Procs : LoadReturns(p) => CarriedStamp(mem'[p]) = IsoCalendar(today)]_vars

\* C22: when calls do not interleave, in every persisted state the counter
\* of each stored key is at least 0 and equals the number of successful
\* record calls for that key made since the persisted stamp last changed to
\* its present value.
C22_CounterEqualsCompletions ==
    file.kind = "json" =>
        \A k \in DOMAIN Get(file.data, "exercises", EmptyDict) :
            /\ k \in StoredKeys
            /\ Count(file.data, k) >= 0
            /\ Count(file.data, k) = recordedSince[k]

\* C22 witness: in ISO 2026 week 1 the store counts one completion saved
\* under the new stamp, while a key completed in week 52 counts none
C22_Witness ==
    /\ RecordOk(1)
    /\ today = 4
    /\ PersistedStamp = <<2026, 1>>
    /\ \E k \in CatalogKeySet : Count(file.data, k) = 1 /\ recordedSince[k] = 1
    /\ \E k \in CatalogKeySet :
          /\ LastDone(file.data, k) \in {IsoFormat(d) : d \in 0..2}
          /\ Count(file.data, k) = 0
          /\ recordedSince[k] = 0

\* C23: a successful record(key, d) made while the stored stamp is the
\* current ISO week changes, in the persisted state, only key's
\* last_done_local_date and times_completed_this_week: the metadata and the
\* entry of every other key are as before.
C23_RecordFrame ==
    [][\A p \in Procs :
          (RecordSaves(p) /\ PersistedStamp = IsoCalendar(today)) =>
              /\ file'.data["metadata"] = file.data["metadata"]
              /\ DOMAIN file'.data = DOMAIN file.data
              /\ DOMAIN file'.data["exercises"] = DOMAIN file.data["exercises"]
              /\ \A k \in DOMAIN file.data["exercises"] \ {arg[p][2]} :
                    file'.data["exercises"][k] = file.data["exercises"][k]
              /\ DOMAIN file'.data["exercises"][arg[p][2]]
                    = {"last_done_local_date", "times_completed_this_week"}
              /\ LastDone(file'.data, arg[p][2]) = IsoFormat(arg[p][3])
              /\ Count(file'.data, arg[p][2]) = Count(file.data, arg[p][2]) + 1]_vars

\* C23 witness: on Monday 2025-12-29, under the stamp of 2026 week 1, a
\* second completion has been saved for another key and Sunday's date; the
\* first key's entry and the stamp are as the first save left them
C23_Witness ==
    /\ RecordOk(1)
    /\ nops = 2
    /\ today = 4
    /\ arg[1][3] = 3
    /\ PersistedStamp = <<2026, 1>>
    /\ Count(file.data, arg[1][2]) = 1
    /\ \E k \in CatalogKeySet \ {arg[1][2]} :
          /\ LastDone(file.data, k) = IsoFormat(4)
          /\ Count(file.data, k) = 1

\* a state with its stamp and its counters left out
WithoutStampAndCounters(state) ==
    [k \in DOMAIN Get(state, "exercises", EmptyDict) |-> LastDone(state, k)]

\* the part of a recommendation that the gates decide
Gating(r) ==
    <<r.cns_blocked_today, r.not_ready_by_rest, r.log_gap_warning,
      Range(r.must_do_today) \cup Range(r.optional_today)>>

\* C24: a load that rolls the week over returns the stored state with the
\* missing keys added and only the stamp and the counters changed: every
\* last_done_local_date is as stored; the recommendation computed from it
\* has the same cns_blocked_today, not_ready_by_rest, gap warning and set of
\* allowed exercises as the one computed from the state without the
\* rollover.
C24_RolloverFrame ==
    [][\A p \in Procs :
          /\ (LoadReads(p) /\ PersistedStamp \notin {None, IsoCalendar(today)}) =>
                LET before == ensure_all_exercises_present(file.data)
                IN /\ WithoutStampAndCounters(mem'[p]) = WithoutStampAndCounters(before)
                   /\ DOMAIN mem'[p] \ {"metadata"} = DOMAIN before \ {"metadata"}
                   /\ \A k \in DOMAIN before["exercises"] :
                         /\ DOMAIN mem'[p]["exercises"][k]
                               \subseteq DOMAIN before["exercises"][k]
                                           \cup {"times_completed_this_week"}
                         /\ LastDone(mem'[p], k) = LastDone(file.data, k)
          /\ (pc[p] = "rcm_classify" /\ pc'[p] = "done" /\ file.kind = "json") =>
                Gating(out'[p].result)
                  = Gating(Recommendations(ensure_all_exercises_present(file.data), today))]_vars

\* C24 witness: a recommendation on Monday 2025-12-29 from a store still
\* stamped week 52 with counted completions: the state in memory is rolled
\* over, and Sunday's completions hold exercises back by both gates
C24_Witness ==
    /\ HasRecommendations(1)
    /\ cur[1] = 4
    /\ PersistedStamp = <<2025, 52>>
    /\ CarriedStamp(mem[1]) = <<2026, 1>>
    /\ \E k \in CatalogKeySet :
          /\ Count(file.data, k) > 0
          /\ Count(mem[1], k) = 0
          /\ LastDone(mem[1], k) = IsoFormat(3)
    /\ out[1].result.cns_blocked_today # <<>>
    /\ out[1].result.not_ready_by_rest # <<>>

====
